---- MODULE Spec2Model ----
(***************************************************************************)
(* A model of two background components of k8s-spark-scheduler:            *)
(*                                                                         *)
(*   - LazyDemandInformer (internal/crd/demand_informer.go): polls for the *)
(*     Demand CRD on a ticker and, once it is there, starts and syncs the  *)
(*     demand informer and publishes it.                                   *)
(*   - DemandGC (extender): a pod event handler that deletes the demand of *)
(*     a pod once the pod gets scheduled.                                  *)
(*                                                                         *)
(* Time is not modelled: a ticker tick, a timeout, a backoff timer and the *)
(* cancellation of the context are events that can happen at any moment.   *)
(* A select entered with several cases ready takes any one of them; a      *)
(* select that blocks is woken by the first case that becomes ready.       *)
(***************************************************************************)
EXTENDS Naturals, Integers, Sequences, FiniteSets, TLC

\* ------------------------------------------------------------ bounds
\* Ticks Run takes from the ticker before the model stops taking more.
MaxTicks == 4
\* Concurrent callers of Informer().
NumReaders == 1
\* Pod identities.
NumPods == 2

\* ------------------------------------------------- program constants
informerSyncRetryCount == 5

Readers == 1..NumReaders

\* Pod identities (namespace and name).
Pods == 1..NumPods

\* What the model reads of a pod: its identity, whether it carries the
\* marker of a pod managed by this scheduler, whether it has a node.
PodObjects == [id : Pods, managed : BOOLEAN, node : BOOLEAN]

\* The callers of DeleteDemandIfExists: the reclaimer, with the source tag
\* "DemandGC", and the scheduling path of the extender.
Callers == {"DemandGC", "Scheduler"}

NoEvent == [kind |-> "none"]

IdleCall == [pc |-> "idle", pod |-> 0, outcome |-> "none", err |-> FALSE]

VARIABLES
    \* ---- LazyDemandInformer
    pc,            \* position of the goroutine running Run
    runResult,     \* what Run returned: "none" while running, then "nil" or "err"
    cancelled,     \* ctx.Done() is closed
    tickPending,   \* a tick sits in the ticker's channel t.C (buffer of one)
    sel,           \* the case Run's select has been given: "wait" while it blocks
                   \* with no case ready, then "ctx" or "tick"; "none" elsewhere
    informer,      \* ldi.informer: "nil" or "demands"
    readyClosed,   \* number of times ldi.ready has been closed
    writer,        \* ldi.lock is held exclusively
    rlocked,       \* the readers holding ldi.lock shared
    got,           \* what each reader's last Informer() call returned
    started,       \* the factory has started the demand informer
    synced,        \* informer.HasSynced()
    attempts,      \* sync attempts made in the current or last retry round
    lastCheck,     \* outcome of the last CheckCRDExists: none, error, absent, ready
    \* ---- history of the run
    nTicks,        \* ticks Run has taken
    nAbsent,       \* of them, ticks whose check reported the CRD absent
    ticksAfterCancel, \* of them, ticks taken when ctx was already cancelled
    everReady,     \* some check has reported the CRD ready
    cancelledEarly, \* ctx was cancelled before any check reported the CRD ready
    cancelledInRound, \* ctx was cancelled during the sync round in progress or last made
    \* ---- DemandGC
    attached,      \* StartDemandGC has added its handler to the pod informer
    demands,       \* the pods (by identity) that have a Demand in the demand cache
    lastEvent,     \* the last pod event the pod informer delivered
    eventCalls,    \* the DeleteDemandIfExists calls the handler made for it
    call           \* per caller, its DeleteDemandIfExists call in progress or last made

wvars == <<pc, sel, runResult, cancelled, tickPending, informer, readyClosed, writer,
           rlocked, got, started, synced, attempts, lastCheck, nTicks, nAbsent,
           ticksAfterCancel, everReady, cancelledEarly, cancelledInRound>>

gvars == <<attached, demands, lastEvent, eventCalls, call>>

vars == <<wvars, gvars>>

\* ------------------------------------------------------------------
\* NewLazyDemandInformer: ready is an open channel, informer is nil,
\* the lock is free. Run has been called and waits in its select.
InitWatcher ==
    /\ pc = "select"
    /\ sel = "wait"
    /\ runResult = "none"
    /\ cancelled = FALSE
    /\ tickPending = FALSE
    /\ informer = "nil"
    /\ readyClosed = 0
    /\ writer = FALSE
    /\ rlocked = {}
    /\ got = [r \in Readers |-> "none"]
    /\ started = FALSE
    /\ synced = FALSE
    /\ attempts = 0
    /\ lastCheck = "none"
    /\ nTicks = 0
    /\ nAbsent = 0
    /\ ticksAfterCancel = 0
    /\ everReady = FALSE
    /\ cancelledEarly = FALSE
    /\ cancelledInRound = FALSE

\* ------------------------------------------------------ environment
\* The host cancels the context Run was given: closing ctx.Done() wakes
\* Run's select when it blocks. Once Run has returned the context no longer
\* matters to it.
Cancel ==
    /\ pc # "done"
    /\ ~cancelled
    /\ cancelled' = TRUE
    /\ cancelledEarly' = ~everReady
    /\ UNCHANGED <<pc, runResult, tickPending, informer, readyClosed, writer,
                   rlocked, got, started, synced, attempts, lastCheck, nTicks,
                   nAbsent, ticksAfterCancel, everReady>>
    /\ UNCHANGED gvars
    /\ cancelledInRound' = (pc \in {"attempt", "backoff"})
    /\ sel' = IF pc = "select" /\ sel = "wait" THEN "ctx" ELSE sel

\* time.NewTicker(time.Minute): the ticker puts a tick into t.C, which
\* holds one tick; a tick that finds the channel full is dropped. The
\* tick wakes Run's select when it blocks.
\* The deferred t.Stop() ends the ticks when Run returns.
Tick ==
    /\ pc # "done"
    /\ ~tickPending
    /\ tickPending' = TRUE
    /\ UNCHANGED <<pc, runResult, cancelled, informer, readyClosed, writer,
                   rlocked, got, started, synced, attempts, lastCheck, nTicks,
                   nAbsent, ticksAfterCancel, everReady, cancelledEarly>>
    /\ UNCHANGED gvars
    /\ UNCHANGED cancelledInRound
    /\ sel' = IF pc = "select" /\ sel = "wait" THEN "tick" ELSE sel

\* The informer's goroutine, started by informerFactory.Start(ctx.Done()),
\* completes its initial list: informer.HasSynced() turns true and stays
\* true. The goroutine stops when ctx.Done() is closed, and does nothing at
\* all when it is started with ctx.Done() already closed.
HasSynced ==
    /\ started
    /\ ~cancelled
    /\ ~synced
    /\ synced' = TRUE
    /\ UNCHANGED <<pc, runResult, cancelled, tickPending, informer, readyClosed,
                   writer, rlocked, got, started, attempts, lastCheck, nTicks,
                   nAbsent, ticksAfterCancel, everReady, cancelledEarly>>
    /\ UNCHANGED gvars
    /\ UNCHANGED cancelledInRound
    /\ UNCHANGED sel

\* -------------------------------------------------------------- Run
\* What Run does with the result of checkDemandCRDExists: return nil when
\* it is true, go round the loop when it is false.
\* A select statement as Go runs it. Entered with cases ready, it takes
\* one of them, any of them; entered with none ready it blocks, and the
\* first channel operation that can proceed wakes it with that case: a
\* case that becomes ready later does not change the choice.
SelectCases ==
    IF ~cancelled /\ ~tickPending
      THEN {"wait"}
      ELSE {c \in {"ctx", "tick"} : \/ c = "ctx" /\ cancelled
                                    \/ c = "tick" /\ tickPending}

\* Run comes to its select when next = "select".
EnterSelect(next) ==
    sel' \in IF next = "select" THEN SelectCases ELSE {"none"}

RunNext_loops(exists) == "select"

RunNext(exists) == IF exists THEN "done" ELSE "select"

RunReturn(exists) == IF exists THEN "nil" ELSE "none"

\* select { case <-ctx.Done(): return nil }: the case the select was given.
Run_ctxDone ==
    /\ pc = "select"
    /\ cancelled
    /\ sel = "ctx"
    /\ sel' = "none"
    /\ pc' = "done"
    /\ runResult' = "nil"
    /\ UNCHANGED <<cancelled, tickPending, informer, readyClosed, writer,
                   rlocked, got, started, synced, attempts, lastCheck, nTicks,
                   nAbsent, ticksAfterCancel, everReady, cancelledEarly>>
    /\ UNCHANGED gvars
    /\ UNCHANGED cancelledInRound

\* select { case <-t.C: ... }: the case the select was given.
Run_tick ==
    /\ pc = "select"
    /\ tickPending
    /\ sel = "tick"
    /\ sel' = "none"
    /\ nTicks < MaxTicks
    /\ tickPending' = FALSE
    /\ pc' = "check"
    /\ nTicks' = nTicks + 1
    /\ ticksAfterCancel' = IF cancelled THEN ticksAfterCancel + 1
                                        ELSE ticksAfterCancel
    /\ UNCHANGED <<runResult, cancelled, informer, readyClosed, writer, rlocked,
                   got, started, synced, attempts, lastCheck, nAbsent,
                   everReady, cancelledEarly>>
    /\ UNCHANGED gvars
    /\ UNCHANGED cancelledInRound

\* The same case of the select once MaxTicks ticks have been counted: the
\* tick is taken and the counters of the history stay where they are.
Run_tickUncounted ==
    /\ pc = "select"
    /\ tickPending
    /\ sel = "tick"
    /\ sel' = "none"
    /\ nTicks = MaxTicks
    /\ tickPending' = FALSE
    /\ pc' = "check"
    /\ UNCHANGED <<runResult, cancelled, informer, readyClosed, writer, rlocked,
                   got, started, synced, attempts, lastCheck, nTicks, nAbsent,
                   ticksAfterCancel, everReady, cancelledEarly, cancelledInRound>>
    /\ UNCHANGED gvars

\* ------------------------------------------- checkDemandCRDExists
\* The value checkDemandCRDExists returns, from what CheckCRDExists said
\* (ready) and whether initializeInformer failed (initErr).
checkResult_noReturnOnInitErr(ready, initErr) == ready

checkResult(ready, initErr) == IF initErr THEN FALSE ELSE ready

\* CheckCRDExists returns an error: log, return false.
checkDemandCRDExists_err ==
    /\ pc = "check"
    /\ lastCheck' = "error"
    /\ pc' = RunNext(FALSE)
    /\ runResult' = RunReturn(FALSE)
    /\ UNCHANGED <<cancelled, tickPending, informer, readyClosed, writer,
                   rlocked, got, started, synced, attempts, nTicks, nAbsent,
                   ticksAfterCancel, everReady, cancelledEarly>>
    /\ UNCHANGED gvars
    /\ UNCHANGED cancelledInRound
    /\ EnterSelect(pc')

checkDemandCRDExists_notReady_initializes ==
    /\ pc = "check"
    /\ lastCheck' = "absent"
    /\ nAbsent' = IF nAbsent < MaxTicks THEN nAbsent + 1 ELSE nAbsent
    /\ pc' = "lock"
    /\ UNCHANGED <<runResult, cancelled, tickPending, informer, readyClosed,
                   writer, rlocked, got, started, synced, attempts, nTicks,
                   ticksAfterCancel, everReady, cancelledEarly>>
    /\ UNCHANGED gvars
    /\ UNCHANGED cancelledInRound
    /\ UNCHANGED sel

\* CheckCRDExists returns ready = false without an error: return ready.
\* (The history's counter of such ticks stops at MaxTicks.)
checkDemandCRDExists_notReady ==
    /\ pc = "check"
    /\ lastCheck' = "absent"
    /\ nAbsent' = IF nAbsent < MaxTicks THEN nAbsent + 1 ELSE nAbsent
    /\ pc' = RunNext(checkResult(FALSE, FALSE))
    /\ runResult' = RunReturn(checkResult(FALSE, FALSE))
    /\ UNCHANGED <<cancelled, tickPending, informer, readyClosed, writer,
                   rlocked, got, started, synced, attempts, nTicks,
                   ticksAfterCancel, everReady, cancelledEarly>>
    /\ UNCHANGED gvars
    /\ UNCHANGED cancelledInRound
    /\ EnterSelect(pc')

\* A check that closes ldi.ready as soon as the CRD is reported ready.
checkDemandCRDExists_ready_closes ==
    /\ pc = "check"
    /\ lastCheck' = "ready"
    /\ everReady' = TRUE
    /\ pc' = "lock"
    /\ readyClosed' = readyClosed + 1
    /\ UNCHANGED <<runResult, cancelled, tickPending, informer,
                   writer, rlocked, got, started, synced, attempts, nTicks,
                   nAbsent, ticksAfterCancel, cancelledEarly>>
    /\ UNCHANGED gvars
    /\ UNCHANGED cancelledInRound
    /\ UNCHANGED sel

\* CheckCRDExists returns ready = true: call initializeInformer.
checkDemandCRDExists_ready ==
    /\ pc = "check"
    /\ lastCheck' = "ready"
    /\ everReady' = TRUE
    /\ pc' = "lock"
    /\ UNCHANGED <<runResult, cancelled, tickPending, informer, readyClosed,
                   writer, rlocked, got, started, synced, attempts, nTicks,
                   nAbsent, ticksAfterCancel, cancelledEarly>>
    /\ UNCHANGED gvars
    /\ UNCHANGED cancelledInRound
    /\ UNCHANGED sel

\* ---------------------------------------------- initializeInformer
\* retry.Do's loop condition after a failed attempt, a being the number of
\* attempts made so far: retry.WithMaxAttempts(informerSyncRetryCount).
RetryNext_oneMore(a) == a <= informerSyncRetryCount

RetryNext(a) == a < informerSyncRetryCount

\* initializeInformer without its ldi.lock.Lock().
initializeInformer_lock_noLock ==
    /\ pc = "lock"
    /\ ~writer
    /\ rlocked = {}
    /\ writer' = writer
    /\ started' = TRUE
    /\ attempts' = 0
    /\ pc' = "attempt"
    /\ UNCHANGED <<runResult, cancelled, tickPending, informer, readyClosed,
                   rlocked, got, synced, lastCheck, nTicks, nAbsent,
                   ticksAfterCancel, everReady, cancelledEarly>>
    /\ UNCHANGED gvars
    /\ cancelledInRound' = FALSE
    /\ UNCHANGED sel

\* ldi.lock.Lock() has been called and gets the lock once the readers that
\* hold it have left; then Demands().Informer() and informerFactory.Start:
\* the factory starts the informer unless it has started it before.
\* retry.Do then makes its first attempt without looking at ctx.
initializeInformer_lock ==
    /\ pc = "lock"
    /\ ~writer
    /\ rlocked = {}
    /\ writer' = TRUE
    /\ started' = TRUE
    /\ attempts' = 0
    /\ pc' = "attempt"
    /\ UNCHANGED <<runResult, cancelled, tickPending, informer, readyClosed,
                   rlocked, got, synced, lastCheck, nTicks, nAbsent,
                   ticksAfterCancel, everReady, cancelledEarly>>
    /\ UNCHANGED gvars
    /\ cancelledInRound' = FALSE
    /\ UNCHANGED sel

\* A successful attempt after which ldi.informer is left unassigned.
initializeInformer_synced_noPublish ==
    /\ pc = "attempt"
    /\ synced
    /\ attempts' = attempts + 1
    /\ writer' = FALSE
    /\ pc' = RunNext(checkResult(TRUE, FALSE))
    /\ runResult' = RunReturn(checkResult(TRUE, FALSE))
    /\ UNCHANGED <<cancelled, tickPending, informer, readyClosed, rlocked, got,
                   started, synced, lastCheck, nTicks, nAbsent, ticksAfterCancel,
                   everReady, cancelledEarly, cancelledInRound>>
    /\ UNCHANGED gvars
    /\ EnterSelect(pc')

\* An attempt in which WaitForCacheSync sees HasSynced() true: retry.Do
\* returns nil, ldi.informer is assigned, the deferred Unlock runs,
\* checkDemandCRDExists returns ready and Run returns nil.
\* The function does not touch ldi.ready.
initializeInformer_synced ==
    /\ pc = "attempt"
    /\ synced
    /\ attempts' = attempts + 1
    /\ informer' = "demands"
    /\ writer' = FALSE
    /\ pc' = RunNext(checkResult(TRUE, FALSE))
    /\ runResult' = RunReturn(checkResult(TRUE, FALSE))
    /\ UNCHANGED <<cancelled, tickPending, readyClosed, rlocked, got, started,
                   synced, lastCheck, nTicks, nAbsent, ticksAfterCancel,
                   everReady, cancelledEarly>>
    /\ UNCHANGED gvars
    /\ UNCHANGED cancelledInRound
    /\ EnterSelect(pc')

\* A failed attempt that gives the lock up while it waits for the backoff.
initializeInformer_timeout_unlocks ==
    /\ pc = "attempt"
    /\ ~synced \/ cancelled
    /\ attempts' = attempts + 1
    /\ IF RetryNext(attempts')
         THEN /\ pc' = "backoff"
              /\ UNCHANGED sel
              /\ writer' = FALSE
              /\ UNCHANGED runResult
         ELSE /\ writer' = FALSE
              /\ pc' = RunNext(checkResult(TRUE, TRUE))
              /\ runResult' = RunReturn(checkResult(TRUE, TRUE))
              /\ EnterSelect(pc')
    /\ UNCHANGED <<cancelled, tickPending, informer, readyClosed, rlocked, got,
                   started, synced, lastCheck, nTicks, nAbsent,
                   ticksAfterCancel, everReady, cancelledEarly>>
    /\ UNCHANGED gvars
    /\ UNCHANGED cancelledInRound

\* An attempt in which WaitForCacheSync returns false: its stop channel
\* (ctxWithTimeout.Done()) closed first, by the timeout or by ctx. With
\* attempts left retry.Do goes to wait for the backoff; with none left it
\* returns the error, the deferred Unlock runs, checkDemandCRDExists logs
\* and returns false and Run goes round its loop.
initializeInformer_timeout ==
    /\ pc = "attempt"
    /\ ~synced \/ cancelled
    /\ attempts' = attempts + 1
    /\ IF RetryNext(attempts')
         THEN /\ pc' = "backoff"
              /\ UNCHANGED sel
              /\ UNCHANGED <<writer, runResult>>
         ELSE /\ writer' = FALSE
              /\ pc' = RunNext(checkResult(TRUE, TRUE))
              /\ runResult' = RunReturn(checkResult(TRUE, TRUE))
              /\ EnterSelect(pc')
    /\ UNCHANGED <<cancelled, tickPending, informer, readyClosed, rlocked, got,
                   started, synced, lastCheck, nTicks, nAbsent,
                   ticksAfterCancel, everReady, cancelledEarly>>
    /\ UNCHANGED gvars
    /\ UNCHANGED cancelledInRound

\* retry.Do's wait between attempts when it is not given ctx: the backoff
\* timer fires whatever ctx says.
initializeInformer_backoff_noCtx ==
    /\ pc = "backoff"
    /\ pc' = "attempt"
    /\ UNCHANGED <<runResult, cancelled, tickPending, informer, readyClosed,
                   writer, rlocked, got, started, synced, attempts, lastCheck,
                   nTicks, nAbsent, ticksAfterCancel, everReady, cancelledEarly>>
    /\ UNCHANGED gvars
    /\ UNCHANGED cancelledInRound
    /\ UNCHANGED sel

\* retry.Do's wait between attempts: the backoff timer fires and wakes the
\* wait. That cannot happen once ctx.Done() is closed: closed when the wait
\* begins it is the only ready case, closed during the wait it is what
\* wakes it.
initializeInformer_backoff ==
    /\ pc = "backoff"
    /\ ~cancelled
    /\ pc' = "attempt"
    /\ UNCHANGED <<runResult, cancelled, tickPending, informer, readyClosed,
                   writer, rlocked, got, started, synced, attempts, lastCheck,
                   nTicks, nAbsent, ticksAfterCancel, everReady, cancelledEarly>>
    /\ UNCHANGED gvars
    /\ UNCHANGED cancelledInRound
    /\ UNCHANGED sel

\* retry.Do's wait between attempts: ctx.Done() is taken, retry.Do returns
\* the error and initializeInformer fails as after the last attempt.
initializeInformer_ctxDone ==
    /\ pc = "backoff"
    /\ cancelled
    /\ writer' = FALSE
    /\ pc' = RunNext(checkResult(TRUE, TRUE))
    /\ runResult' = RunReturn(checkResult(TRUE, TRUE))
    /\ UNCHANGED <<cancelled, tickPending, informer, readyClosed, rlocked, got,
                   started, synced, attempts, lastCheck, nTicks, nAbsent,
                   ticksAfterCancel, everReady, cancelledEarly>>
    /\ UNCHANGED gvars
    /\ UNCHANGED cancelledInRound
    /\ EnterSelect(pc')

\* ------------------------------------------------------- Informer()
\* ldi.lock.RLock(): it blocks while the lock is held exclusively, and
\* while a Lock() is waiting for the readers to leave (sync.RWMutex keeps
\* new readers out so that the writer gets the lock).
Informer_RLock(r) ==
    /\ r \notin rlocked
    /\ ~writer
    /\ pc # "lock"
    /\ rlocked' = rlocked \cup {r}
    /\ UNCHANGED <<pc, runResult, cancelled, tickPending, informer, readyClosed,
                   writer, got, started, synced, attempts, lastCheck, nTicks,
                   nAbsent, ticksAfterCancel, everReady, cancelledEarly>>
    /\ UNCHANGED gvars
    /\ UNCHANGED cancelledInRound
    /\ UNCHANGED sel

\* return ldi.informer, with the deferred RUnlock
Informer_return(r) ==
    /\ r \in rlocked
    /\ got' = [got EXCEPT ![r] = informer]
    /\ rlocked' = rlocked \ {r}
    /\ UNCHANGED <<pc, runResult, cancelled, tickPending, informer, readyClosed,
                   writer, started, synced, attempts, lastCheck, nTicks,
                   nAbsent, ticksAfterCancel, everReady, cancelledEarly>>
    /\ UNCHANGED gvars
    /\ UNCHANGED cancelledInRound
    /\ UNCHANGED sel

\* Ready(): the channel is closed
Ready == readyClosed > 0

\* ========================================================= DemandGC
InitGC ==
    /\ attached = FALSE
    /\ lastEvent = NoEvent
    /\ eventCalls = <<>>
    /\ call = [c \in Callers |-> IdleCall]

\* utils.IsSparkSchedulerPod, the FilterFunc: the pod carries the marker.
IsSparkSchedulerPod(pod) == pod.managed

\* utils.OnPodScheduled's test: the pod was not scheduled and now is.
isPodScheduled(pod) == pod.node

OnPodScheduled(oldPod, newPod) == ~isPodScheduled(oldPod) /\ isPodScheduled(newPod)

\* clientcache.FilteringResourceEventHandler: which method of the inner
\* Handler an event reaches. An update whose old object alone passes the
\* filter is handed on as a delete, one whose new object alone passes it
\* as an add.
Filtered(ev) ==
    CASE ev.kind = "add" ->
            IF IsSparkSchedulerPod(ev.new) THEN "add" ELSE "none"
      [] ev.kind = "delete" ->
            IF IsSparkSchedulerPod(ev.old) THEN "delete" ELSE "none"
      [] ev.kind = "update" ->
            IF IsSparkSchedulerPod(ev.new) /\ IsSparkSchedulerPod(ev.old) THEN "update"
            ELSE IF IsSparkSchedulerPod(ev.new) THEN "add"
            ELSE IF IsSparkSchedulerPod(ev.old) THEN "delete"
            ELSE "none"
      [] OTHER -> "none"

\* The handler StartDemandGC registers, as the sequence of pods it calls
\* DeleteDemandIfExists(dgc.ctx, dgc.demandCache, pod, "DemandGC") for:
\* ResourceEventHandlerFuncs with UpdateFunc alone set, behind the filter.
HandlerCalls_noFilter(ev) ==
    IF ev.kind = "update" /\ OnPodScheduled(ev.old, ev.new)
      THEN <<ev.new.id>>
      ELSE <<>>

HandlerCalls_onAddToo(ev) ==
    IF Filtered(ev) = "update" /\ OnPodScheduled(ev.old, ev.new)
      THEN <<ev.new.id>>
      ELSE IF Filtered(ev) = "add" /\ isPodScheduled(ev.new)
      THEN <<ev.new.id>>
      ELSE <<>>

HandlerCalls(ev) ==
    IF Filtered(ev) = "update" /\ OnPodScheduled(ev.old, ev.new)
      THEN <<ev.new.id>>
      ELSE <<>>

\* StartDemandGC: build the DemandGC and add the handler.
StartDemandGC ==
    /\ ~attached
    /\ attached' = TRUE
    /\ UNCHANGED <<demands, lastEvent, eventCalls, call>>
    /\ UNCHANGED wvars

\* The pod informer delivers one event to its handlers, one event at a
\* time: the handler runs inside the dispatch, and with it the call of
\* DeleteDemandIfExists, whose steps are DeleteDemandIfExists_get and
\* DeleteDemandIfExists_delete below.
Deliver(ev) ==
    /\ call["DemandGC"].pc = "idle"
    /\ lastEvent' = [ev EXCEPT !.seen = attached]
    /\ eventCalls' = IF attached THEN HandlerCalls(ev) ELSE <<>>
    /\ call' = IF eventCalls' # <<>>
                 THEN [call EXCEPT !["DemandGC"] =
                         [pc |-> "get", pod |-> eventCalls'[1],
                          outcome |-> "none", err |-> FALSE]]
                 ELSE call
    /\ UNCHANGED <<attached, demands>>
    /\ UNCHANGED wvars

PodAdd ==
    \E pod \in PodObjects :
        Deliver([kind |-> "add", old |-> pod, new |-> pod, seen |-> FALSE])

PodUpdate ==
    \E oldPod \in PodObjects, newPod \in PodObjects :
        /\ oldPod.id = newPod.id
        /\ Deliver([kind |-> "update", old |-> oldPod, new |-> newPod, seen |-> FALSE])

PodDelete ==
    \E pod \in PodObjects :
        Deliver([kind |-> "delete", old |-> pod, new |-> pod, seen |-> FALSE])

\* The scheduling path of the extender deletes the demand of a pod it has
\* just scheduled.
SchedulerDelete ==
    \E p \in Pods :
        /\ call["Scheduler"].pc = "idle"
        /\ call' = [call EXCEPT !["Scheduler"] =
                      [pc |-> "get", pod |-> p, outcome |-> "none", err |-> FALSE]]
        /\ UNCHANGED <<attached, demands, lastEvent, eventCalls>>
        /\ UNCHANGED wvars

\* DeleteDemandIfExists, first step: look the pod's demand up in the
\* cache; return without an error when there is none.
DeleteDemandIfExists_get(c) ==
    /\ call[c].pc = "get"
    /\ call' = [call EXCEPT ![c] =
                  IF call[c].pod \in demands
                    THEN [@ EXCEPT !.pc = "delete"]
                    ELSE [@ EXCEPT !.pc = "idle", !.outcome = "absent"]]
    /\ UNCHANGED <<attached, demands, lastEvent, eventCalls>>
    /\ UNCHANGED wvars

\* A delete that fails when the demand has gone since the lookup.
DeleteDemandIfExists_delete_strict(c) ==
    /\ call[c].pc = "delete"
    /\ demands' = demands \ {call[c].pod}
    /\ call' = [call EXCEPT ![c] =
                  IF call[c].pod \in demands
                    THEN [@ EXCEPT !.pc = "idle", !.outcome = "deleted"]
                    ELSE [@ EXCEPT !.pc = "idle", !.outcome = "gone", !.err = TRUE]]
    /\ UNCHANGED <<attached, lastEvent, eventCalls>>
    /\ UNCHANGED wvars

\* DeleteDemandIfExists, second step: delete the demand from the cache. The
\* demand may have been deleted by the other caller since the lookup: that
\* is no error.
DeleteDemandIfExists_delete(c) ==
    /\ call[c].pc = "delete"
    /\ demands' = demands \ {call[c].pod}
    /\ call' = [call EXCEPT ![c] =
                  IF call[c].pod \in demands
                    THEN [@ EXCEPT !.pc = "idle", !.outcome = "deleted"]
                    ELSE [@ EXCEPT !.pc = "idle", !.outcome = "gone"]]
    /\ UNCHANGED <<attached, lastEvent, eventCalls>>
    /\ UNCHANGED wvars

\* ------------------------------------------------------------------
\* The watcher, with the reclaimer at rest.
Init == InitWatcher /\ InitGC /\ demands = {}

Next ==
    \/ Cancel
    \/ Tick
    \/ HasSynced
    \/ Run_ctxDone
    \/ Run_tick
    \/ checkDemandCRDExists_err
    \/ checkDemandCRDExists_notReady
    \/ checkDemandCRDExists_ready
    \/ initializeInformer_lock
    \/ initializeInformer_synced
    \/ initializeInformer_timeout
    \/ initializeInformer_backoff
    \/ initializeInformer_ctxDone
    \/ \E r \in Readers : Informer_RLock(r)
    \/ \E r \in Readers : Informer_return(r)

Spec == Init /\ [][Next]_vars

\* The watcher running for ever: Run goes on taking ticks past MaxTicks.
NextLive ==
    \/ Next
    \/ Run_tickUncounted

\* A step of the goroutine that runs Run.
RunStep ==
    \/ Run_ctxDone
    \/ Run_tick
    \/ Run_tickUncounted
    \/ checkDemandCRDExists_err
    \/ checkDemandCRDExists_notReady
    \/ checkDemandCRDExists_ready
    \/ initializeInformer_lock
    \/ initializeInformer_synced
    \/ initializeInformer_timeout
    \/ initializeInformer_backoff
    \/ initializeInformer_ctxDone

\* The goroutine of Run is scheduled: whatever step it is at, it takes it
\* (a select takes one of its ready cases, a timeout or a timer fires). A
\* caller of Informer() that holds the lock returns. The ticker keeps
\* ticking. The rest is what the environment is assumed to do in the end:
\* CheckCRDExists reports the CRD ready again and again (strong fairness of
\* that outcome) and the started informer completes its initial list
\* unless ctx is cancelled.
Fairness ==
    /\ WF_vars(RunStep)
    /\ WF_vars(Tick)
    /\ WF_vars(\E r \in Readers : Informer_return(r))
    /\ WF_vars(HasSynced)
    /\ SF_vars(checkDemandCRDExists_ready)

FairSpec == Init /\ [][NextLive]_vars /\ Fairness

\* The reclaimer, with the watcher at rest. This core never creates a
\* Demand: the demands there are exist from the start.
InitReclaimer == InitWatcher /\ InitGC /\ demands \in SUBSET Pods

NextGC ==
    \/ StartDemandGC
    \/ PodAdd
    \/ PodUpdate
    \/ PodDelete
    \/ SchedulerDelete
    \/ \E c \in Callers : DeleteDemandIfExists_get(c)
    \/ \E c \in Callers : DeleteDemandIfExists_delete(c)

SpecGC == InitReclaimer /\ [][NextGC]_vars

\* ============================================================ claims

\* C1: whenever Run has returned after a check reported the CRD ready and
\* the cache sync succeeded (the informer is published), the channel of
\* Ready() has been closed exactly once.
C1_ReadyFiresExactlyOnce ==
    (pc = "done" /\ informer = "demands") => readyClosed = 1

\* C2: Informer() is non-nil only when the Ready() channel is closed, and
\* nil exactly as long as it is open.
C2_HandleIffReady ==
    (informer # "nil") <=> Ready

\* C4: when ctx is cancelled before any check has reported the CRD ready,
\* Run takes at most one more tick, returns nil, and Informer() is nil
\* after Run has returned.
C4_CancelBeforeAppearance ==
    cancelledEarly =>
        /\ ticksAfterCancel <= 1
        /\ pc = "done" => (runResult = "nil" /\ informer = "nil")

\* The part of C4 the code keeps: Run returns nil and publishes nothing.
C4_ReturnsNilHandleNil ==
    (cancelledEarly /\ pc = "done") => (runResult = "nil" /\ informer = "nil")

\* C5: Run returns only from its select with ctx cancelled, or with the
\* informer published, and always returns nil; a failed check or a failed
\* sync round takes Run back to its select.
C5_FailuresNeverFatal ==
    [][ (pc # "done" /\ pc' = "done") =>
            /\ runResult' = "nil"
            /\ (pc = "select" /\ cancelled) \/ informer' = "demands"
      ]_vars

C5_Witness ==
    /\ pc = "select"
    /\ lastCheck = "error"
    /\ nTicks >= 2
    /\ ~cancelled
    /\ runResult = "none"

\* C6: a sync round that ends without success while ctx is not cancelled
\* has made exactly informerSyncRetryCount attempts, and ends with the
\* informer nil, the Ready() channel open, the lock released and Run back
\* in its select.
C6_RetryBound ==
    [][ (/\ pc \in {"attempt", "backoff"}
         /\ pc' \notin {"attempt", "backoff"}
         /\ informer' = "nil"
         /\ ~cancelled') =>
            /\ attempts' = informerSyncRetryCount
            /\ pc' = "select"
            /\ runResult' = "none"
            /\ ~writer'
            /\ ~Ready'
      ]_vars

C6_Witness ==
    /\ pc = "select"
    /\ lastCheck = "ready"
    /\ attempts = informerSyncRetryCount
    /\ ~cancelled
    /\ informer = "nil"

\* C9: with the CRD absent at ticks 1 to 3 and ready at tick 4, and the
\* sync succeeding at the third attempt of tick 4, the informer is nil and
\* the Ready() channel open through ticks 1 to 3, and after tick 4 Run has
\* returned nil, the informer is published and the channel is closed.
EndToEndDone ==
    /\ pc = "done"
    /\ ~cancelled
    /\ nTicks = 4
    /\ nAbsent = 3
    /\ lastCheck = "ready"
    /\ attempts = 3

C9_EndToEnd ==
    /\ (nTicks <= 3 /\ nAbsent = nTicks) => (informer = "nil" /\ ~Ready)
    /\ EndToEndDone => (runResult = "nil" /\ informer = "demands" /\ Ready)

\* The part of C9 the code keeps: everything but the closed channel.
C9_EndToEndHandle ==
    /\ (nTicks <= 3 /\ nAbsent = nTicks) => (informer = "nil" /\ ~Ready)
    /\ EndToEndDone => (runResult = "nil" /\ informer = "demands")

\* C10: a check that reports the CRD absent, or fails, starts no informer,
\* makes no sync attempt, takes no lock, leaves the informer nil and the
\* Ready() channel open, and takes Run back to its select.
C10_NoActionWhileAbsent ==
    [][ (pc = "check" /\ pc' # "check" /\ lastCheck' \in {"absent", "error"}) =>
            /\ started' = started
            /\ attempts' = attempts
            /\ writer' = writer
            /\ informer' = "nil"
            /\ ~Ready'
            /\ pc' = "select"
            /\ runResult' = "none"
      ]_vars

C10_Witness ==
    /\ pc = "select"
    /\ lastCheck = "absent"
    /\ ~started
    /\ informer = "nil"

\* C7: for an update event delivered to the handler of StartDemandGC: when
\* the old and the new pod carry the marker, the old pod has no node and
\* the new one has, the handler makes exactly one DeleteDemandIfExists
\* call, for that pod; when the old or the new pod lacks the marker, or the
\* old pod has a node already, it makes none.
C7_FilterCorrectness ==
    (lastEvent.kind = "update" /\ lastEvent.seen) =>
        LET o == lastEvent.old
            n == lastEvent.new
        IN /\ (o.managed /\ n.managed /\ ~o.node /\ n.node)
                 => eventCalls = <<n.id>>
           /\ (~o.managed \/ ~n.managed \/ o.node)
                 => eventCalls = <<>>

C7_Witness ==
    /\ lastEvent.kind = "update"
    /\ lastEvent.seen
    /\ eventCalls = <<lastEvent.new.id>>
    /\ call["DemandGC"].pod = lastEvent.new.id
    /\ call["DemandGC"].outcome = "deleted"

\* C8: no DeleteDemandIfExists call, by the reclaimer or by the scheduling
\* path, ends in an error, whether it finds the demand or finds it gone,
\* and once a call for a pod has returned the pod has no demand.
C8_IdempotentReclaim ==
    \A c \in Callers :
        /\ ~call[c].err
        /\ (call[c].pc = "idle" /\ call[c].outcome # "none")
              => call[c].pod \notin demands

\* Both callers looked the same demand up and found it; one deleted it and
\* the other found it gone.
C8_Witness ==
    \E c \in Callers, d \in Callers :
        /\ call[c].pc = "idle"
        /\ call[d].pc = "idle"
        /\ call[c].pod = call[d].pod
        /\ call[c].outcome = "deleted"
        /\ call[d].outcome = "gone"
        /\ ~call[d].err

\* C11: unless ctx is cancelled, Run returns in the end with the informer
\* published, whatever checks failed and sync rounds ran out before.
C11_EventualReadiness ==
    <>(cancelled \/ (pc = "done" /\ runResult = "nil" /\ informer = "demands"))

\* Run has returned with the informer published after a tick whose check
\* reported the CRD absent and a later tick whose check failed or whose
\* sync round did not succeed.
C11_Witness ==
    /\ pc = "done"
    /\ ~cancelled
    /\ informer = "demands"
    /\ nAbsent >= 1
    /\ nTicks >= nAbsent + 2
    /\ nTicks < MaxTicks

\* C12: when ctx is cancelled during a sync round, no further attempt of
\* the round is started, and the round ends with the lock released and Run
\* either returned nil or in its select with a case to take at once,
\* ctx.Done() being ready: it does not wait for another tick.
C12_CancelMidRetry ==
    [][ (cancelledInRound /\ pc \in {"attempt", "backoff"}) =>
            /\ ~(pc = "backoff" /\ pc' = "attempt")
            /\ pc' \notin {"attempt", "backoff"} =>
                  /\ ~writer'
                  /\ \/ pc' = "select" /\ cancelled' /\ sel' # "wait"
                     \/ pc' = "done" /\ runResult' = "nil"
      ]_vars

\* A round that ctx's cancellation cut short: Run is back in its select
\* with the lock released and attempts left unused.
C12_Witness ==
    /\ cancelledInRound
    /\ pc = "select"
    /\ sel = "ctx"
    /\ lastCheck = "ready"
    /\ attempts >= 1
    /\ attempts < informerSyncRetryCount
    /\ ~writer
    /\ informer = "nil"

\* C13: ldi.informer is written only with the lock held exclusively and
\* read by Informer() only with the lock held shared; the lock is never
\* held both ways; Informer() returns nil or the published informer.
C13_LockDiscipline ==
    /\ [](~(writer /\ rlocked # {}))
    /\ [](\A r \in Readers : got[r] \in {"none", "nil", "demands"})
    /\ [][ /\ informer' # informer => (writer /\ rlocked = {})
           /\ \A r \in Readers :
                 (r \in rlocked /\ r \notin rlocked') =>
                     (~writer /\ got'[r] = informer /\ informer' = informer)
       ]_vars

\* An Informer() call that returned nil earlier holds the lock again, now
\* that the informer is published.
C13_Witness ==
    \E r \in Readers : r \in rlocked /\ got[r] = "nil" /\ informer = "demands"

\* C14: a pod add event or a pod delete event delivered to the handler of
\* StartDemandGC makes no DeleteDemandIfExists call.
C14_UpdateEventsOnly ==
    (lastEvent.kind \in {"add", "delete"} /\ lastEvent.seen) =>
        /\ eventCalls = <<>>
        /\ call["DemandGC"].pc = "idle"

\* A managed pod with a demand is first seen with a node already: no call.
C14_Witness ==
    /\ lastEvent.kind = "add"
    /\ lastEvent.seen
    /\ lastEvent.new.managed
    /\ lastEvent.new.node
    /\ lastEvent.new.id \in demands
    /\ eventCalls = <<>>

\* C15: the channel of Ready() is never closed a second time.
C15_ReadyAtMostOnce ==
    readyClosed <= 1

\* Two checks have reported the CRD ready: a failed sync round, then a
\* successful one.
C15_Witness ==
    /\ pc = "done"
    /\ informer = "demands"
    /\ nTicks >= 2
    /\ nAbsent = 0
    /\ started
    /\ attempts < informerSyncRetryCount

\* C16: once ldi.informer is assigned Run has returned nil at that tick:
\* the informer is not assigned again or reset, and no tick is taken, no
\* check and no sync attempt made afterwards.
C16_PublishedOnce ==
    /\ [](informer # "nil" => (pc = "done" /\ runResult = "nil"))
    /\ [][ informer # "nil" =>
              /\ informer' = informer
              /\ pc' = pc
              /\ nTicks' = nTicks
              /\ lastCheck' = lastCheck
              /\ attempts' = attempts
              /\ tickPending' = tickPending
       ]_vars

\* The informer is published and a tick that arrived in the meantime stays
\* in the ticker's channel.
C16_Witness ==
    /\ informer = "demands"
    /\ pc = "done"
    /\ tickPending
    /\ nTicks < MaxTicks

\* C17: during a sync round (attempts and backoffs) the lock is held
\* exclusively, no Informer() call gets the lock or returns; a call that
\* returns returns the informer as it is then: nil as long as no round has
\* succeeded.
C17_ReadersBlockedDuringRound ==
    /\ [](pc \in {"attempt", "backoff"} => (writer /\ rlocked = {}))
    /\ [](pc # "done" => informer = "nil")
    /\ [][ /\ pc \in {"attempt", "backoff"} => (rlocked' = {} /\ got' = got)
           /\ \A r \in Readers :
                 (r \in rlocked /\ r \notin rlocked') => got'[r] = informer
       ]_vars

\* An Informer() call has got the lock after a round of
\* informerSyncRetryCount failed attempts.
C17_Witness ==
    /\ pc = "select"
    /\ lastCheck = "ready"
    /\ attempts = informerSyncRetryCount
    /\ rlocked # {}
    /\ informer = "nil"

\* C18: after ctx is cancelled Run takes at most one tick (the pending
\* one), and returns nil.
C18_AtMostThePendingTick ==
    /\ cancelled => ticksAfterCancel <= 1
    /\ pc = "done" => runResult = "nil"

\* The part of C18 the code keeps: a tick taken after the cancellation,
\* with a check that reports the CRD ready and a sync round.
C18_TickAfterCancel ==
    /\ cancelled
    /\ ticksAfterCancel = 1
    /\ cancelledEarly
    /\ pc = "attempt"
====
